---- MODULE Spec2Model ----
(***************************************************************************)
(* A model of folder_size_report.py: walk_and_collect (the os.walk loop,   *)
(* the depth-ordered aggregation loop and the setdefault loop), the top-N  *)
(* selection of main and print_tree.                                       *)
(*                                                                         *)
(* A path string is modelled by its split on os.sep: "/a/b" is             *)
(* <<"", "a", "b">>, "/" is <<"", "">>, "" is <<"">>, "C:\\" is            *)
(* <<"C:", "">>, "C:\\a" is <<"C:", "a">> and "C:" is <<"C:">>.  The       *)
(* number of separators of a path is then Len(p) - 1.                      *)
(***************************************************************************)
EXTENDS Integers, Sequences, FiniteSets, TLC

\* Bounds of the model.
MaxDirs == 3
MaxFiles == 2
MaxTop == 2
MaxTreeDepth == 1
MaxTreeChildren == 2

VARIABLES root, tree, files, pc, wi, own_size, children, visited_dirs,
          total_size, all_dirs, order, added, top_n, top_items,
          depth_limit, per_level_limit, printed

vars == <<root, tree, files, pc, wi, own_size, children, visited_dirs,
          total_size, all_dirs, order, added, top_n, top_items,
          depth_limit, per_level_limit, printed>>

(***************************************************************************)
(* The file system that is scanned.  Directory 0 is the root; directory i  *)
(* (1 <= i <= Len(tree)) lies in directory tree[i].parent and is a plain   *)
(* directory, a directory whose listing fails, or a symbolic link to a     *)
(* directory (what lies "in" a link is what lies in its target).  A file   *)
(* is a regular file, an entry whose size lookup fails, or a symbolic link *)
(* to a file of the given size.  What lies in a directory whose listing    *)
(* fails is never seen, so the model puts nothing there.                   *)
(***************************************************************************)
DirKinds == {"dir", "noaccess", "link"}
FileKinds == {"reg", "bad", "link"}
EntryNames == <<"a", "b", "c", "d", "e">>

\* abspath(args.root): a filesystem root or a directory below one, on a
\* POSIX system or on a Windows drive.
Roots == {<<"", "">>, <<"", "r">>, <<"C:", "">>, <<"C:", "r">>}

Nodes == 0..Len(tree)
KindOf(n) == IF n = 0 THEN "dir" ELSE tree[n].kind
ParentOf(n) == tree[n].parent

TreesOf(nd) ==
  {t \in [1..nd -> [parent : 0..nd, kind : DirKinds]] :
      \A i \in 1..nd :
         /\ t[i].parent < i
         /\ t[i].parent # 0 => t[t[i].parent].kind # "noaccess"}
Trees == UNION {TreesOf(nd) : nd \in 0..MaxDirs}

FileSeqsOf(t, k) ==
  {[i \in 1..k |-> [dir |-> g[i].dir, kind |-> g[i].kind, size |-> i]] :
      g \in [1..k -> [dir : {0} \cup {n \in 1..Len(t) : t[n].kind # "noaccess"},
                      kind : FileKinds]]}
FileSeqs(t) == UNION {FileSeqsOf(t, k) : k \in 0..MaxFiles}

(***************************************************************************)
(* Python dicts, which keep insertion order: sequences of [k, v] records.  *)
(***************************************************************************)
Keys(d) == {d[i].k : i \in DOMAIN d}
Has(d, k) == k \in Keys(d)
Get(d, k, dflt) ==
  IF Has(d, k) THEN d[CHOOSE i \in DOMAIN d : d[i].k = k].v ELSE dflt
Put(d, k, v) ==
  IF Has(d, k)
    THEN [i \in DOMAIN d |-> IF d[i].k = k THEN [k |-> k, v |-> v] ELSE d[i]]
    ELSE Append(d, [k |-> k, v |-> v])
SetDefault(d, k, v) == IF Has(d, k) THEN d ELSE Append(d, [k |-> k, v |-> v])

(***************************************************************************)
(* os.path on split paths.                                                 *)
(***************************************************************************)
Drives == {"", "C:"}

\* os.path.join(abs_dir, name)
Join(p, name) ==
  IF Len(p) >= 2 /\ p[Len(p)] = ""
    THEN [p EXCEPT ![Len(p)] = name]
    ELSE Append(p, name)

\* directory.rstrip("\\/")
RECURSIVE Rstrip(_)
Rstrip(p) ==
  IF Len(p) > 1 /\ p[Len(p)] = "" THEN Rstrip(SubSeq(p, 1, Len(p) - 1)) ELSE p

\* os.path.dirname
Dirname(p) ==
  IF Len(p) = 1 THEN <<IF p[1] \in Drives THEN p[1] ELSE "">>
  ELSE IF Len(p) = 2 /\ p[1] \in Drives THEN <<p[1], "">>
  ELSE SubSeq(p, 1, Len(p) - 1)

\* p.count(os.sep)
SepCount(p) == Len(p) - 1

\* truth value of a path string: false for ""
Truthy(p) == p # <<"">>

RECURSIVE PathOf(_)
PathOf(n) == IF n = 0 THEN root ELSE Join(PathOf(ParentOf(n)), EntryNames[n])

(***************************************************************************)
(* os.walk(root, topdown=True): the directories it yields, in order.       *)
(***************************************************************************)
\* dirnames of directory n: every entry that is_dir(), links included
DirEntries(n) == SelectSeq([i \in 1..Len(tree) |-> i], LAMBDA c : ParentOf(c) = n)
\* filenames of directory n (indices into files)
FileEntries(n) == SelectSeq([i \in 1..Len(files) |-> i], LAMBDA f : files[f].dir = n)

\* what Descend would be under os.walk(..., followlinks=True)
DescendFollowLinks(c) == TRUE
\* os.walk walks into new_path only if it is not a link (followlinks=False)
Descend(c) == KindOf(c) # "link"

RECURSIVE WalkFrom(_)
RECURSIVE WalkEach(_, _)
\* scandir failing makes os.walk yield nothing for the directory
WalkFrom(n) ==
  IF KindOf(n) = "noaccess" THEN <<>>
  ELSE <<n>> \o WalkEach(DirEntries(n), 1)
WalkEach(ds, i) ==
  IF i > Len(ds) THEN <<>>
  ELSE (IF Descend(ds[i]) THEN WalkFrom(ds[i]) ELSE <<>>) \o WalkEach(ds, i + 1)
WalkSeq == WalkFrom(0)

(***************************************************************************)
(* The body of the os.walk loop.                                           *)
(***************************************************************************)
AppendChildren(ch, abs_dir, dirnames) ==
  IF dirnames = <<>> THEN ch
  ELSE Put(ch, abs_dir,
           Get(ch, abs_dir, <<>>)
             \o [i \in 1..Len(dirnames) |-> Join(abs_dir, EntryNames[dirnames[i]])])

GetSizeFails(f) == files[f].kind = "bad"
\* os.path.getsize stats the path, so it follows a link to its target
GetSize(f) == files[f].size

RECURSIVE SumFiles(_, _, _, _)
\* what OnSizeError would be with break in place of continue
OnSizeErrorBreak(os, abs_dir, filenames, i) == os
\* except (OSError, PermissionError): continue
OnSizeError(os, abs_dir, filenames, i) == SumFiles(os, abs_dir, filenames, i + 1)

\* own_size[abs_dir] += getsize(...): the defaultdict creates the key before
\* getsize is called, so the key exists even when every lookup fails
SumFiles(os, abs_dir, filenames, i) ==
  IF i > Len(filenames) THEN os
  ELSE LET touched == SetDefault(os, abs_dir, 0)
       IN IF GetSizeFails(filenames[i])
            THEN OnSizeError(touched, abs_dir, filenames, i)
            ELSE SumFiles(Put(touched, abs_dir,
                              Get(touched, abs_dir, 0) + GetSize(filenames[i])),
                          abs_dir, filenames, i + 1)

Init ==
  /\ root \in Roots
  /\ tree \in Trees
  /\ files \in FileSeqs(tree)
  /\ pc = "walk"
  /\ wi = 1
  /\ own_size = <<>>
  /\ children = <<>>
  /\ visited_dirs = 0
  /\ total_size = <<>>
  /\ all_dirs = {}
  /\ order = <<>>
  /\ added = <<>>
  /\ top_n = 0
  /\ top_items = <<>>
  /\ depth_limit = 0
  /\ per_level_limit = 0
  /\ printed = <<>>

\* os.walk has a directory left to yield
MoreToWalk == pc = "walk" /\ wi <= Len(WalkSeq)
WalkDone == pc = "walk" /\ wi > Len(WalkSeq)

\* one iteration of the os.walk loop
WalkDir ==
  /\ MoreToWalk
  /\ LET n == WalkSeq[wi]
         abs_dir == PathOf(n)
     IN /\ visited_dirs' = visited_dirs + 1
        /\ children' = AppendChildren(children, abs_dir, DirEntries(n))
        /\ own_size' = SumFiles(own_size, abs_dir, FileEntries(n), 1)
  /\ wi' = wi + 1
  /\ UNCHANGED <<root, tree, files, pc, total_size, all_dirs, order, added,
                 top_n, top_items, depth_limit, per_level_limit, printed>>

\* total_size = dict(own_size); all_dirs = set(total_size) | set(children)
StartAggregate ==
  /\ WalkDone
  /\ total_size' = own_size
  /\ all_dirs' = Keys(own_size) \cup Keys(children)
  /\ pc' = "aggregate"
  /\ UNCHANGED <<root, tree, files, wi, own_size, children, visited_dirs,
                 order, added, top_n, top_items, depth_limit,
                 per_level_limit, printed>>

Range(s) == {s[i] : i \in DOMAIN s}

\* the directories the aggregation loop has not processed yet
Unprocessed == all_dirs \ Range(order)
\* sorted() is stable and the set's iteration order is arbitrary, so the next
\* directory is any unprocessed one with the greatest separator count
NextInOrder == {d \in Unprocessed : \A e \in Unprocessed : SepCount(e) <= SepCount(d)}

\* one iteration of the aggregation loop
AggregateDir ==
  /\ pc = "aggregate"
  /\ \E directory \in NextInOrder :
       /\ LET parent == Dirname(Rstrip(directory))
          IN IF Truthy(parent) /\ directory # parent
               THEN /\ total_size' = Put(total_size, parent,
                                         Get(total_size, parent, 0)
                                           + Get(total_size, directory, 0))
                    /\ added' = Append(added, [dir |-> directory, parent |-> parent,
                                               amount |-> Get(total_size, directory, 0)])
               ELSE UNCHANGED <<total_size, added>>
       /\ order' = Append(order, directory)
  /\ UNCHANGED <<root, tree, files, pc, wi, own_size, children, visited_dirs,
                 all_dirs, top_n, top_items, depth_limit, per_level_limit,
                 printed>>

(***************************************************************************)
(* The setdefault loop over all_dirs and the return.  The loop follows the *)
(* set's iteration order: any order of all_dirs that agrees with the       *)
(* order in which sorted() left the directories of equal separator count.  *)
(***************************************************************************)
Pos(s, x) == CHOOSE i \in DOMAIN s : s[i] = x
Perms(S) ==
  {s \in [1..Cardinality(S) -> S] :
      \A i, j \in 1..Cardinality(S) : i # j => s[i] # s[j]}
SetOrders ==
  {s \in Perms(all_dirs) :
      \A a, b \in all_dirs :
         (SepCount(a) = SepCount(b) /\ Pos(order, a) < Pos(order, b))
            => Pos(s, a) < Pos(s, b)}

RECURSIVE SetDefaults(_, _, _)
SetDefaults(d, ks, i) ==
  IF i > Len(ks) THEN d ELSE SetDefaults(SetDefault(d, ks[i], 0), ks, i + 1)

FillMissing ==
  /\ pc = "aggregate"
  /\ Unprocessed = {}
  /\ \E s \in SetOrders : total_size' = SetDefaults(total_size, s, 1)
  /\ pc' = "returned"
  /\ UNCHANGED <<root, tree, files, wi, own_size, children, visited_dirs,
                 all_dirs, order, added, top_n, top_items, depth_limit,
                 per_level_limit, printed>>

(***************************************************************************)
(* main: heapq.nlargest(top_n, total_size.items(), key=size), which is     *)
(* sorted(items, key=size, reverse=True)[:top_n], a stable sort.           *)
(***************************************************************************)
Max(a, b) == IF a >= b THEN a ELSE b
Min(a, b) == IF a <= b THEN a ELSE b

\* s[:n]
Take(s, n) == SubSeq(s, 1, Min(n, Len(s)))

\* insert x behind every element that is at least as large
InsertDesc(sorted, x) ==
  LET n == Cardinality({i \in DOMAIN sorted : sorted[i].v >= x.v})
  IN SubSeq(sorted, 1, n) \o <<x>> \o SubSeq(sorted, n + 1, Len(sorted))

RECURSIVE SortedDesc(_)
SortedDesc(items) ==
  IF items = <<>> THEN <<>>
  ELSE InsertDesc(SortedDesc(SubSeq(items, 1, Len(items) - 1)), items[Len(items)])

NLargest(n, items) == Take(SortedDesc(items), n)

Rank ==
  /\ pc = "returned"
  /\ \E top \in 0..MaxTop :
       /\ top_n' = Max(1, top)
       /\ top_items' = NLargest(Max(1, top), total_size)
  /\ pc' = "ranked"
  /\ UNCHANGED <<root, tree, files, wi, own_size, children, visited_dirs,
                 total_size, all_dirs, order, added, depth_limit,
                 per_level_limit, printed>>

(***************************************************************************)
(* print_tree.  A printed line is recorded as the node and the depth of    *)
(* the _print_node call that printed it, in the order of printing.         *)
(***************************************************************************)
SortChildren(child_list, ts) ==
  LET items == [j \in DOMAIN child_list |->
                  [k |-> child_list[j], v |-> Get(ts, child_list[j], 0)]]
      sorted == SortedDesc(items)
  IN [j \in DOMAIN sorted |-> sorted[j].k]

BuildLargestChildMap(ch, ts) ==
  [i \in DOMAIN ch |-> [k |-> ch[i].k, v |-> SortChildren(ch[i].v, ts)]]

\* what DepthReached would be with > in place of >=
DepthReachedLate(depth, dl) == depth > dl
\* if depth >= depth_limit: return
DepthReached(depth, dl) == depth >= dl

RECURSIVE PrintNode(_, _, _, _, _)
RECURSIVE PrintEach(_, _, _, _, _, _)
PrintNode(node, depth, oc, dl, pl) ==
  <<[node |-> node, depth |-> depth]>>
    \o (IF DepthReached(depth, dl) THEN <<>>
        ELSE PrintEach(Take(Get(oc, node, <<>>), pl), 1, depth + 1, oc, dl, pl))
PrintEach(child_nodes, i, depth, oc, dl, pl) ==
  IF i > Len(child_nodes) THEN <<>>
  ELSE PrintNode(child_nodes[i], depth, oc, dl, pl)
         \o PrintEach(child_nodes, i + 1, depth, oc, dl, pl)

PrintTree ==
  /\ pc = "ranked"
  /\ \E tree_depth \in -1..MaxTreeDepth, tree_children \in 0..MaxTreeChildren :
       /\ depth_limit' = Max(0, tree_depth)
       /\ per_level_limit' = Max(1, tree_children)
       /\ printed' = PrintNode(root, 0, BuildLargestChildMap(children, total_size),
                               Max(0, tree_depth), Max(1, tree_children))
  /\ pc' = "printed"
  /\ UNCHANGED <<root, tree, files, wi, own_size, children, visited_dirs,
                 total_size, all_dirs, order, added, top_n, top_items>>

Next == WalkDir \/ StartAggregate \/ AggregateDir \/ FillMissing \/ Rank \/ PrintTree

Spec == Init /\ [][Next]_vars

(***************************************************************************)
(* Reference notions, read off the file system itself.                     *)
(***************************************************************************)
Returned == pc \in {"returned", "ranked", "printed"}
Ranked == pc \in {"ranked", "printed"}

\* the directory is listed by the scan: it and all its ancestors up to the
\* root are plain, listable directories
RECURSIVE Enumerated(_)
Enumerated(n) == n = 0 \/ (KindOf(n) = "dir" /\ Enumerated(ParentOf(n)))

\* the directory is reachable from the root without following a link
Reachable(n) == n = 0 \/ (KindOf(n) # "link" /\ Enumerated(ParentOf(n)))

\* the directory is a symbolic link or lies beneath one
RECURSIVE BehindLink(_)
BehindLink(n) == n # 0 /\ (KindOf(n) = "link" \/ BehindLink(ParentOf(n)))

RECURSIVE InSubtree(_, _)
InSubtree(m, n) == m = n \/ (m # 0 /\ InSubtree(ParentOf(m), n))

\* path p is d or lies beneath d
AtOrUnder(p, d) ==
  \/ p = d
  \/ LET stem == Rstrip(d)
     IN Len(p) > Len(stem) /\ SubSeq(p, 1, Len(stem)) = stem

RECURSIVE SumSizes(_, _)
SumSizes(fs, I) ==
  IF I = {} THEN 0
  ELSE LET i == CHOOSE j \in I : TRUE IN fs[i].size + SumSizes(fs, I \ {i})

RECURSIVE SumGet(_, _, _)
SumGet(d, ks, i) ==
  IF i > Len(ks) THEN 0 ELSE Get(d, ks[i], 0) + SumGet(d, ks, i + 1)

\* C1: after the scan returns, every key d of total_size satisfies
\* total_size[d] = own_size[d] + the sum of total_size[c] over children[d]
\* (an absent entry counts as 0, an absent child list as empty).
C1_AggregationCorrect ==
  Returned =>
    \A d \in Keys(total_size) :
       Get(total_size, d, 0)
         = Get(own_size, d, 0) + SumGet(total_size, Get(children, d, <<>>), 1)

\* C2: every directory the scan lists is a key of total_size, an empty one
\* with value 0; for an empty root total_size[root] = 0, visited_dirs = 1 and
\* the ranked list is exactly <<(root, 0)>>.
C2_EveryListedDirIsKey ==
  /\ Returned =>
       \A n \in Nodes :
          Enumerated(n) =>
            /\ Has(total_size, PathOf(n))
            /\ (DirEntries(n) = <<>> /\ FileEntries(n) = <<>>)
                  => Get(total_size, PathOf(n), 0) = 0
  /\ (Ranked /\ tree = <<>> /\ files = <<>>) =>
       /\ visited_dirs = 1
       /\ top_items = <<[k |-> root, v |-> 0]>>

\* C3: visited_dirs is the number of directories reachable from the root
\* without following links, unlistable ones included.
C3_VisitCount ==
  Returned => visited_dirs = Cardinality({n \in Nodes : Reachable(n)})

\* C4: a directory that is a symbolic link or lies beneath one is never
\* listed: it is no key of own_size, children or total_size, it is not
\* counted in visited_dirs, and no total exceeds the bytes of the files that
\* lie at or under that key outside every link.
C4_SymlinkExclusion ==
  /\ \A n \in Nodes :
        BehindLink(n) =>
          PathOf(n) \notin (Keys(own_size) \cup Keys(children) \cup Keys(total_size))
  /\ visited_dirs <= Cardinality({n \in Nodes : ~BehindLink(n)})
  /\ \A d \in Keys(total_size) :
        Get(total_size, d, 0)
          <= SumSizes(files, {i \in DOMAIN files :
                                 /\ ~BehindLink(files[i].dir)
                                 /\ AtOrUnder(PathOf(files[i].dir), d)})

\* the scan returned, a listed directory holds a link to a directory, and a
\* regular file lies in the link's target or beneath it
C4_Witness ==
  /\ Returned
  /\ \E n \in Nodes :
        /\ n # 0 /\ KindOf(n) = "link" /\ Enumerated(ParentOf(n))
        /\ \E i \in DOMAIN files : files[i].kind = "reg" /\ InSubtree(files[i].dir, n)

\* the file system without the files whose size lookup fails
WithoutFailed == SelectSeq(files, LAMBDA f : f.kind # "bad")
BytesIn(fs, n) == SumSizes(fs, {i \in DOMAIN fs : fs[i].dir = n})
BytesUnder(fs, n) ==
  SumSizes(fs, {i \in DOMAIN fs : Enumerated(fs[i].dir) /\ InSubtree(fs[i].dir, n)})

C5_SameAsWithoutFailed ==
  Returned =>
    \A n \in Nodes :
       Enumerated(n) =>
         /\ Get(own_size, PathOf(n), 0) = BytesIn(WithoutFailed, n)
         /\ Get(total_size, PathOf(n), 0) = BytesUnder(WithoutFailed, n)

\* the number of loop iterations and hand-overs the scan has left at most
StepsLeft ==
  IF pc = "walk" THEN (Len(WalkSeq) + 1 - wi) + Len(tree) + 3
  ELSE IF pc = "aggregate" THEN Cardinality(Unprocessed) + 1
  ELSE 0

\* a step of the scan is possible
CanStep ==
  \/ MoreToWalk
  \/ WalkDone
  \/ pc = "aggregate" /\ NextInOrder # {}
  \/ pc = "aggregate" /\ Unprocessed = {} /\ SetOrders # {}

\* C5: whichever files fail their size lookup, the scan terminates and
\* returns (until it has returned a step is always possible, and every step
\* leaves fewer steps), and every listed directory's own size and total size
\* are those of the file system without the failed files: a failed file adds
\* 0 and the other files of its directory are still summed.
C5_PermissionResilience ==
  /\ [](C5_SameAsWithoutFailed)
  /\ [](~Returned => (CanStep /\ StepsLeft > 0))
  /\ [][~Returned => StepsLeft' < StepsLeft]_vars

\* the scan returned, and a listed directory holds a failed file followed by
\* a file whose size was added
C5_Witness ==
  /\ Returned
  /\ \E i, j \in DOMAIN files :
        /\ i < j /\ files[i].dir = files[j].dir /\ Enumerated(files[i].dir)
        /\ files[i].kind = "bad" /\ files[j].kind = "reg"
        /\ Get(own_size, PathOf(files[i].dir), 0) = files[j].size

\* C6: the ranked list is sorted by size, non-increasing, its length is
\* min(top_n, visited_dirs), and entries of equal size keep the order they
\* have in total_size.
C6_RankingOrder ==
  Ranked =>
    /\ \A i, j \in DOMAIN top_items : i < j => top_items[i].v >= top_items[j].v
    /\ Len(top_items) = Min(top_n, visited_dirs)
    /\ \A i, j \in DOMAIN top_items :
          (i < j /\ top_items[i].v = top_items[j].v)
             => Pos(total_size, top_items[i]) < Pos(total_size, top_items[j])

\* the lines printed as children of line i
PrintedChildren(i) ==
  SelectSeq([j \in DOMAIN printed |-> j],
            LAMBDA j : /\ j > i
                       /\ printed[j].depth = printed[i].depth + 1
                       /\ \A m \in (i + 1)..j : printed[m].depth > printed[i].depth)

Size(c) == Get(total_size, c, 0)

\* C7: the tree starts with the root at depth 0; beneath a node printed at a
\* depth below depth_limit are exactly the first min(per_level_limit, number
\* of children) of its children in non-increasing total size (equal sizes in
\* the order of the child list); beneath a node at depth_limit is nothing.
C7_TreeBounds ==
  pc = "printed" =>
    /\ printed[1] = [node |-> root, depth |-> 0]
    /\ \A i \in DOMAIN printed : printed[i].depth <= depth_limit
    /\ \A i \in DOMAIN printed :
          LET kids == PrintedChildren(i)
              all == Get(children, printed[i].node, <<>>)
          IN IF printed[i].depth >= depth_limit THEN kids = <<>>
             ELSE /\ Len(kids) = Min(per_level_limit, Len(all))
                  /\ \A a \in DOMAIN kids : printed[kids[a]].node \in Range(all)
                  /\ \A a, b \in DOMAIN kids :
                        a < b =>
                          LET x == printed[kids[a]].node
                              y == printed[kids[b]].node
                          IN \/ Size(x) > Size(y)
                             \/ Size(x) = Size(y) /\ Pos(all, x) < Pos(all, y)
                  /\ \A a \in DOMAIN kids :
                        \A c \in Range(all) \ {printed[kids[b]].node : b \in DOMAIN kids} :
                           LET x == printed[kids[a]].node
                           IN \/ Size(x) > Size(c)
                              \/ Size(x) = Size(c) /\ Pos(all, x) < Pos(all, c)

\* a tree was printed in which a node above depth_limit has more children
\* than per_level_limit and a node at depth_limit has children
C7_Witness ==
  /\ pc = "printed"
  /\ \E i \in DOMAIN printed :
        /\ printed[i].depth < depth_limit
        /\ Len(Get(children, printed[i].node, <<>>)) > per_level_limit
  /\ \E i \in DOMAIN printed :
        /\ printed[i].depth = depth_limit
        /\ Get(children, printed[i].node, <<>>) # <<>>

\* C8: own_size of a listed directory is the sum of the sizes of its files
\* that are not symbolic links: a link to a file adds nothing.
C8_LinkFilesAddNothing ==
  Returned =>
    \A n \in Nodes :
       Enumerated(n) =>
         Get(own_size, PathOf(n), 0)
           = SumSizes(files, {i \in DOMAIN files :
                                 files[i].dir = n /\ files[i].kind = "reg"})

\* C9: when a directory's total is added into its parent's, that total is
\* already final (it is the directory's total when the scan returns), and
\* every processed directory that has a parent is added exactly once.
C9_ChildFinalWhenAdded ==
  Returned =>
    /\ \A i \in DOMAIN added : added[i].amount = Get(total_size, added[i].dir, 0)
    /\ \A d \in all_dirs :
          (Truthy(Dirname(Rstrip(d))) /\ d # Dirname(Rstrip(d)))
             => Cardinality({i \in DOMAIN added : added[i].dir = d}) = 1

\* C10: every key of total_size, and so every path of the ranked list, is
\* the root or lies beneath it.
C10_KeysWithinRoot ==
  /\ Returned => \A d \in Keys(total_size) : AtOrUnder(d, root)
  /\ Ranked => \A i \in DOMAIN top_items : AtOrUnder(top_items[i].k, root)
====
